---- MODULE Spec2Model ----
(***************************************************************************)
(* Model of the homwing_gripper driver: the HomwingGripper session         *)
(* (src/src/homwing_gripper/__init__.py) and its register codec            *)
(* (src/src/homwing_gripper/core.py).                                      *)
(*                                                                         *)
(* A session operation is a coroutine.  It runs without interleaving up to *)
(* an await, so the state records the request it is suspended on           *)
(* (pending), the requests it still has to await (todo), the requests it   *)
(* has handed to the transport so far (sent) and how each ended (acks).    *)
(* The transport (pymodbus AsyncModbusSerialClient) is the environment: a  *)
(* request ends with a normal response, with an exception response that    *)
(* is RETURNED to the caller (a device NAK), or with a raised exception.   *)
(* Time is counted in ticks of one poll sleep (asyncio.sleep(0.1)).        *)
(* DeviceSpec adds the gripper as a process of its own, which answers the  *)
(* status reads with the motion state it has reached.                      *)
(***************************************************************************)
EXTENDS Integers, Sequences, FiniteSets, TLC

VARIABLES
    address,    \* HomwingGripper._address
    pc,         \* "idle" | "await" (suspended on the transport) | "sleep"
    op,         \* the operation running, or the last one that ran
    args,       \* its arguments
    todo,       \* the requests the coroutine still has to await, in order
    pending,    \* the transport request in flight, or NoRequest
    sent,       \* requests this operation handed to the transport, in order
    acks,       \* how each request of sent ended, in order
    rx,         \* result.registers of the last completed read
    result,     \* the value the operation returned
    outcome,    \* "none" | "running" | "ok" | the exception raised
    polls,      \* status reads issued by the running poll loop
    sleeps,     \* asyncio.sleep(0.1) calls started by the running poll loop
    elapsed,    \* ticks since the running poll loop began
    device      \* the gripper: the move it is on and the gOBJ it reports

vars == << address, pc, op, args, todo, pending, sent, acks, rx, result,
           outcome, polls, sleeps, elapsed, device >>

----------------------------------------------------------------------------
(* Bounds of the model and the inputs the operations are tried on.         *)

\* Ticks a poll loop is followed for; beyond the deadline of
\* wait_for_activation, so that a loop without deadline is seen to go on.
MaxElapsed == 53

ConstructorAddresses == {9, 300}
SetterAddresses == {-1, 247, 248}
Positions == {0, 255, 256}
Speeds == {0, 255}
Forces == {20, 255}
\* STATUS word 0: enabled/activating/moving, enabled/activated/moving, and
\* enabled/activated/no object with a non-zero high byte; word 1 is read and
\* never used.
StatusWord0 == {17, 49, 65521}
StatusWord1 == {0}
\* the words the other input registers are tried on
DataWords == {0, 261, 515, 65535}

----------------------------------------------------------------------------
(* Python's integer operators on naturals.                                 *)

RECURSIVE BitAnd(_, _)
BitAnd(a, b) ==
    IF a = 0 \/ b = 0 THEN 0
    ELSE ((a % 2) * (b % 2)) + 2 * BitAnd(a \div 2, b \div 2)

RECURSIVE BitOr(_, _)
BitOr(a, b) ==
    IF a = 0 THEN b
    ELSE IF b = 0 THEN a
    ELSE (IF (a % 2) + (b % 2) > 0 THEN 1 ELSE 0) + 2 * BitOr(a \div 2, b \div 2)

Shl(a, k) == a * (2 ^ k)
Shr(a, k) == a \div (2 ^ k)
bool(v) == v # 0

----------------------------------------------------------------------------
(* core.py                                                                 *)

ControlRegister(enable, mode, move_to_targret, automatic_inspection, automatic_patrol_inspection) ==
    [ enable |-> enable, mode |-> mode, move_to_targret |-> move_to_targret,
      automatic_inspection |-> automatic_inspection,
      automatic_patrol_inspection |-> automatic_patrol_inspection ]

ControlRegisters ==
    { ControlRegister(e, m, t, i, p) : e \in BOOLEAN, m \in BOOLEAN, t \in BOOLEAN,
                                      i \in BOOLEAN, p \in BOOLEAN }

to_u8_swapped_bits(control) ==
    LET r0 == 0
        r1 == IF control.enable THEN BitOr(r0, 1) ELSE r0
        r2 == IF control.mode THEN BitOr(r1, 2) ELSE r1
        r3 == IF control.move_to_targret THEN BitOr(r2, 4) ELSE r2
        r4 == IF control.automatic_inspection THEN BitOr(r3, 16) ELSE r3
        r5 == IF control.automatic_patrol_inspection THEN BitOr(r4, 32) ELSE r4
    IN  r5

to_u8(control) ==
    LET r0 == 0
        r1 == IF control.enable THEN BitOr(r0, 1) ELSE r0
        r2 == IF control.mode THEN BitOr(r1, 2) ELSE r1
        r3 == IF control.move_to_targret THEN BitOr(r2, 8) ELSE r2
        r4 == IF control.automatic_inspection THEN BitOr(r3, 16) ELSE r3
        r5 == IF control.automatic_patrol_inspection THEN BitOr(r4, 32) ELSE r4
    IN  r5

ExecuteControlMovement(force, speed, position) ==
    [ force |-> force, speed |-> speed, position |-> position ]

\* class GSTA(IntEnum)
RESET_OR_INSPECTION == 0
ACTIVATING == 1
RESERVED == 2
ACTIVATED == 3
GSTA_members == {RESET_OR_INSPECTION, ACTIVATING, RESERVED, ACTIVATED}

\* class GOBJ(IntEnum)
MOVING_TO_POSITION == 0
INNER_SUPPORT == 1
OUTER_CLIP == 2
NO_OBJECT_DETECTED == 3
GOBJ_members == {MOVING_TO_POSITION, INNER_SUPPORT, OUTER_CLIP, NO_OBJECT_DETECTED}

NoResult == [ type |-> "None" ]
Raised(e) == [ type |-> "raise", error |-> e ]

GripperStatus_from_u8_shifted(value) ==
    LET sta == BitAnd(Shr(value, 4), 3)
        obj == BitAnd(Shr(value, 5), 3)
    IN  IF sta \in GSTA_members /\ obj \in GOBJ_members
        THEN [ type |-> "GripperStatus",
               gACT |-> bool(BitAnd(value, Shl(1, 0))),
               gDropSta |-> bool(BitAnd(value, Shl(1, 1))),
               gMODE |-> bool(BitAnd(value, Shl(1, 2))),
               gGTO |-> bool(BitAnd(value, Shl(1, 3))),
               gSTA |-> sta,
               gOBJ |-> obj ]
        ELSE Raised("ValueError")

\* GripperStatus.from_u8; GSTA(v) and GOBJ(v) raise ValueError off their members
GripperStatus_from_u8(value) ==
    LET sta == BitAnd(Shr(value, 4), 3)
        obj == BitAnd(Shr(value, 6), 3)
    IN  IF sta \in GSTA_members /\ obj \in GOBJ_members
        THEN [ type |-> "GripperStatus",
               gACT |-> bool(BitAnd(value, Shl(1, 0))),
               gDropSta |-> bool(BitAnd(value, Shl(1, 1))),
               gMODE |-> bool(BitAnd(value, Shl(1, 2))),
               gGTO |-> bool(BitAnd(value, Shl(1, 3))),
               gSTA |-> sta,
               gOBJ |-> obj ]
        ELSE Raised("ValueError")

\* a variant that reads the seven flags one bit higher
GripperFaultStatus_from_u8_shifted(value) ==
    [ control_command_error |-> bool(BitAnd(value, Shl(1, 1))),
      communication_fault |-> bool(BitAnd(value, Shl(1, 2))),
      overcurrent_fault |-> bool(BitAnd(value, Shl(1, 3))),
      voltage_fault |-> bool(BitAnd(value, Shl(1, 4))),
      enabling_fault |-> bool(BitAnd(value, Shl(1, 5))),
      overtemperature_fault |-> bool(BitAnd(value, Shl(1, 6))),
      self_fault |-> bool(BitAnd(value, Shl(1, 7))) ]

\* GripperFaultStatus.from_u8
GripperFaultStatus_from_u8(value) ==
    [ control_command_error |-> bool(BitAnd(value, Shl(1, 0))),
      communication_fault |-> bool(BitAnd(value, Shl(1, 1))),
      overcurrent_fault |-> bool(BitAnd(value, Shl(1, 2))),
      voltage_fault |-> bool(BitAnd(value, Shl(1, 3))),
      enabling_fault |-> bool(BitAnd(value, Shl(1, 4))),
      overtemperature_fault |-> bool(BitAnd(value, Shl(1, 5))),
      self_fault |-> bool(BitAnd(value, Shl(1, 6))) ]

----------------------------------------------------------------------------
(* __init__.py: the transport requests and the operations as the sequence  *)
(* of requests each awaits.                                                *)

NoRequest == [ kind |-> "none", reg |-> "none", values |-> << >>, count |-> 0, slave |-> 0 ]
NoArgs == [ n |-> 0 ]

\* self._client.write_registers(reg, [value], slave=self._address).  The
\* address is the one stored when the operation is called: the setter runs
\* only between operations.
write_registers(reg, value) ==
    [ kind |-> "write", reg |-> reg, values |-> << value >>, count |-> 1, slave |-> address ]

\* self._client.read_input_registers(reg, count=count, slave=self._address)
read_input_registers(reg, count) ==
    [ kind |-> "read", reg |-> reg, values |-> << >>, count |-> count, slave |-> address ]

_read_gripper_status == << read_input_registers("STATUS", 2) >>
_read_fault_position == << read_input_registers("FAULT_POSITION_STATUS", 1) >>
_read_speed_force == << read_input_registers("SPEED_FORCE_STATUS", 1) >>
_read_voltage_temperature == << read_input_registers("VOLTAGE_TEMPERATURE_STATUS", 1) >>
_read_software_version == << read_input_registers("SOFTWARE_INFO", 1) >>

\* what each read operation makes of result.registers; result[0] of an empty
\* list raises IndexError
read_gripper_status(registers) ==
    IF Len(registers) < 1 THEN Raised("IndexError")
    ELSE GripperStatus_from_u8(BitAnd(registers[1], 255))

read_fault_position(registers) ==
    IF Len(registers) < 1 THEN Raised("IndexError")
    ELSE [ type |-> "FaultPosition",
           fault |-> GripperFaultStatus_from_u8(BitAnd(registers[1], 255)),
           position |-> BitAnd(Shr(registers[1], 8), 255) ]

read_speed_force(registers) ==
    IF Len(registers) < 1 THEN Raised("IndexError")
    ELSE [ type |-> "SpeedForce",
           speed |-> BitAnd(registers[1], 255),
           force |-> BitAnd(Shr(registers[1], 8), 255) ]

\* a variant that takes the two bytes the other way round
read_voltage_temperature_swapped(registers) ==
    IF Len(registers) < 1 THEN Raised("IndexError")
    ELSE [ type |-> "VoltageTemperature",
           voltage |-> BitAnd(Shr(registers[1], 8), 255),
           temperature |-> BitAnd(registers[1], 255) ]

read_voltage_temperature(registers) ==
    IF Len(registers) < 1 THEN Raised("IndexError")
    ELSE [ type |-> "VoltageTemperature",
           voltage |-> BitAnd(registers[1], 255),
           temperature |-> BitAnd(Shr(registers[1], 8), 255) ]

read_software_version(registers) == [ type |-> "List", registers |-> registers ]

write_control_register(control) == << write_registers("CONTROL", to_u8(control)) >>

clear_control_register ==
    write_control_register(ControlRegister(FALSE, FALSE, FALSE, FALSE, FALSE))

activate ==
    write_control_register(ControlRegister(TRUE, FALSE, FALSE, FALSE, FALSE))

\* a variant of stop that clears the enable bit as well
stop_disable ==
    write_control_register(ControlRegister(FALSE, FALSE, FALSE, FALSE, FALSE))

stop ==
    write_control_register(ControlRegister(TRUE, FALSE, FALSE, FALSE, FALSE))

execute_move ==
    write_control_register(ControlRegister(TRUE, FALSE, TRUE, FALSE, FALSE))

\* a variant that leaves the position in the low byte
_set_target_position_low_byte(position) ==
    << write_registers("POSITION", position) >>

\* a variant that keeps the low 16 bits of the shifted position
_set_target_position_masked(position) ==
    << write_registers("POSITION", Shl(position, 8) % 65536) >>

_set_target_position(position) == << write_registers("POSITION", Shl(position, 8)) >>

set_target_position(position) == _set_target_position(position)

\* a variant that packs the two bytes the other way round
_set_speed_force_swapped(speed, force) ==
    << write_registers("SPEED_FORCE", force + Shl(speed, 8)) >>

_set_speed_force(speed, force) ==
    << write_registers("SPEED_FORCE", speed + Shl(force, 8)) >>

set_speed_force(speed, force) == _set_speed_force(speed, force)

\* a variant that commits the move before the target is loaded
move_to_position_move_first(position) ==
    execute_move \o _set_target_position(position)

move_to_position(position) ==
    _set_target_position(position) \o execute_move

\* a variant that commits the move before speed/force and target are loaded
execute_control_movement_move_first(movement) ==
    execute_move
        \o set_speed_force(movement.speed, movement.force)
        \o move_to_position(movement.position)

execute_control_movement(movement) ==
    set_speed_force(movement.speed, movement.force)
        \o move_to_position(movement.position)
        \o execute_move

\* asyncio.timeout(5), in ticks of asyncio.sleep(0.1)
TimeoutTicks == 50

PollOps == {"wait_for_move", "wait_for_activation"}

\* a variant of the poll loops in which neither has a deadline
deadline_expired_never(o, t) == FALSE

\* a variant of the poll loops in which both have the deadline
deadline_expired_both(o, t) == t >= TimeoutTicks

\* only wait_for_activation runs under asyncio.timeout
deadline_expired(o, t) == o = "wait_for_activation" /\ t >= TimeoutTicks

\* a variant that takes the enabled flag for the activation state
wait_for_activation_break_on_gACT(status) == status.gACT

\* if result.gSTA == GSTA.ACTIVATED: break
wait_for_activation_break(status) == status.gSTA = ACTIVATED

\* a variant that waits for the no-object state only
wait_for_move_break_no_object(status) == status.gOBJ = NO_OBJECT_DETECTED

\* if result.gOBJ != GOBJ.MOVING_TO_POSITION: break
wait_for_move_break(status) == status.gOBJ # MOVING_TO_POSITION

poll_break(o, status) ==
    IF o = "wait_for_move" THEN wait_for_move_break(status)
    ELSE wait_for_activation_break(status)

\* a variant with the comparison off by one
address_setter_rejects_from_247(value) == value >= 247

\* if value > 247: raise ValueError("Invalid Address")
address_setter_rejects(value) == value > 247

\* The gripper at the other end of the bus, a process of its own.  It is on
\* no move ("rest"), has received a move command that its status does not
\* show yet ("commanded"), or is moving; gOBJ is what its STATUS register
\* reports.
Device(motion, gOBJ) == [ motion |-> motion, gOBJ |-> gOBJ ]

\* activated, with the no-object result of its last move
DeviceAtRest == Device("rest", NO_OBJECT_DETECTED)

\* STATUS word 0 of an enabled, activated gripper
DeviceStatusWords(d) == { << 1 + (16 * ACTIVATED) + (64 * d.gOBJ), 0 >> }

----------------------------------------------------------------------------
(* The state machine.                                                      *)

\* HomwingGripper.__init__ stores the address as given
Init ==
    /\ address \in ConstructorAddresses
    /\ pc = "idle"
    /\ op = "__init__"
    /\ args = NoArgs
    /\ todo = << >>
    /\ pending = NoRequest
    /\ sent = << >>
    /\ acks = << >>
    /\ rx = << >>
    /\ result = NoResult
    /\ outcome = "none"
    /\ polls = 0
    /\ sleeps = 0
    /\ elapsed = 0
    /\ device = DeviceAtRest

\* The caller calls operation o: the coroutine runs to its first await.
Call(o, a, awaits) ==
    /\ pc = "idle"
    /\ pc' = "await"
    /\ op' = o
    /\ args' = a
    /\ pending' = Head(awaits)
    /\ todo' = Tail(awaits)
    /\ sent' = << Head(awaits) >>
    /\ acks' = << >>
    /\ rx' = << >>
    /\ result' = NoResult
    /\ outcome' = "running"
    /\ polls' = IF o \in PollOps THEN 1 ELSE 0
    /\ sleeps' = 0
    /\ elapsed' = 0
    /\ UNCHANGED << address, device >>

\* The operation ends: it returns (out = "ok") or raises out.
Finish(out, res) ==
    /\ pc' = "idle"
    /\ pending' = NoRequest
    /\ todo' = << >>
    /\ outcome' = out
    /\ result' = res

address_setter ==
    /\ pc = "idle"
    /\ \E value \in SetterAddresses :
        /\ op' = "address.setter"
        /\ args' = [ value |-> value ]
        /\ IF address_setter_rejects(value)
           THEN outcome' = "ValueError" /\ UNCHANGED address
           ELSE outcome' = "ok" /\ address' = value
    /\ sent' = << >>
    /\ acks' = << >>
    /\ rx' = << >>
    /\ result' = NoResult
    /\ polls' = 0
    /\ sleeps' = 0
    /\ elapsed' = 0
    /\ UNCHANGED << pc, todo, pending, device >>

Call_read_gripper_status == Call("read_gripper_status", NoArgs, _read_gripper_status)
Call_read_fault_position == Call("read_fault_position", NoArgs, _read_fault_position)
Call_read_speed_force == Call("read_speed_force", NoArgs, _read_speed_force)
Call_read_voltage_temperature ==
    Call("read_voltage_temperature", NoArgs, _read_voltage_temperature)
Call_read_software_version ==
    Call("read_software_version", NoArgs, _read_software_version)

Call_write_control_register ==
    \E control \in ControlRegisters :
        Call("write_control_register", [ control |-> control ],
             write_control_register(control))

Call_clear_control_register == Call("clear_control_register", NoArgs, clear_control_register)
Call_activate == Call("activate", NoArgs, activate)
Call_stop == Call("stop", NoArgs, stop)
Call_execute_move == Call("execute_move", NoArgs, execute_move)

Call_set_target_position ==
    \E position \in Positions :
        Call("set_target_position", [ position |-> position ],
             set_target_position(position))

Call_move_to_position ==
    \E position \in Positions :
        Call("move_to_position", [ position |-> position ], move_to_position(position))

Call_set_speed_force ==
    \E speed \in Speeds, force \in Forces :
        Call("set_speed_force", [ speed |-> speed, force |-> force ],
             set_speed_force(speed, force))

Call_execute_control_movement ==
    \E speed \in Speeds, force \in Forces, position \in Positions :
        LET movement == ExecuteControlMovement(force, speed, position)
        IN  Call("execute_control_movement", movement, execute_control_movement(movement))

\* both poll loops start with a status read
Call_wait_for_move == Call("wait_for_move", NoArgs, _read_gripper_status)
Call_wait_for_activation == Call("wait_for_activation", NoArgs, _read_gripper_status)

\* The transport ends a write.  write_registers' return value is dropped
\* (`await self._client.write_registers(...)`), so an exception response goes
\* unnoticed and the coroutine goes on to its next await; a raised exception
\* passes through every caller.
WriteEnds(r) ==
    /\ pc = "await"
    /\ pending.kind = "write"
    /\ acks' = Append(acks, r)
    /\ IF r = "raise"
       THEN Finish("ModbusIOException", NoResult) /\ UNCHANGED sent
       ELSE IF todo = << >>
       THEN Finish("ok", NoResult) /\ UNCHANGED sent
       ELSE /\ pending' = Head(todo)
            /\ todo' = Tail(todo)
            /\ sent' = Append(sent, Head(todo))
            /\ UNCHANGED << pc, outcome, result >>
    /\ UNCHANGED << address, op, args, rx, polls, sleeps, elapsed >>

WriteResults == {"ok", "exception_response", "raise"}

TransportWriteCompletes ==
    /\ \E r \in WriteResults : WriteEnds(r)
    /\ UNCHANGED device

\* The words a read of reg may return.
ReadWords(req) ==
    IF req.reg = "STATUS"
    THEN { << w0, w1 >> : w0 \in StatusWord0, w1 \in StatusWord1 }
    ELSE { << w >> : w \in DataWords }

\* What the read operation o returns for result.registers.
ReadReturn(o, registers) ==
    CASE o = "read_gripper_status" -> read_gripper_status(registers)
      [] o = "read_fault_position" -> read_fault_position(registers)
      [] o = "read_speed_force" -> read_speed_force(registers)
      [] o = "read_voltage_temperature" -> read_voltage_temperature(registers)
      [] o = "read_software_version" -> read_software_version(registers)

\* The read operation gets result.registers = registers.
ReadGot(registers) ==
    LET res == ReadReturn(op, registers)
    IN  /\ rx' = registers
        /\ IF res.type = "raise"
           THEN Finish(res.error, NoResult)
           ELSE Finish("ok", res)

\* The transport ends the read of a read_* operation: with registers (one
\* of words), with a raised exception, or with an exception response, which
\* has no `registers` (AttributeError) or, in later pymodbus, an empty one.
ReadCompletes(words) ==
    /\ pc = "await"
    /\ pending.kind = "read"
    /\ op \notin PollOps
    /\ \/ /\ acks' = Append(acks, "ok")
          /\ \E registers \in words : ReadGot(registers)
       \/ /\ acks' = Append(acks, "raise")
          /\ Finish("ModbusIOException", NoResult)
          /\ UNCHANGED rx
       \/ /\ acks' = Append(acks, "exception_response")
          /\ \/ Finish("AttributeError", NoResult) /\ UNCHANGED rx
             \/ ReadGot(<< >>)
    /\ UNCHANGED << address, op, args, sent, polls, sleeps, elapsed, device >>

TransportReadCompletes == ReadCompletes(ReadWords(pending))

\* The poll loop gets the status: break, or asyncio.sleep(0.1).
PollGot(registers) ==
    LET status == read_gripper_status(registers)
    IN  /\ rx' = registers
        /\ IF status.type = "raise"
           THEN Finish(status.error, NoResult) /\ UNCHANGED sleeps
           ELSE IF poll_break(op, status)
           THEN Finish("ok", status) /\ UNCHANGED sleeps
           ELSE /\ pc' = "sleep"
                /\ pending' = NoRequest
                /\ result' = status
                /\ sleeps' = sleeps + 1
                /\ UNCHANGED << todo, outcome >>

\* The transport ends the status read of a poll loop, before any deadline,
\* with registers (one of words) or with a failure.
PollReadEnds(words) ==
    /\ pc = "await"
    /\ pending.kind = "read"
    /\ op \in PollOps
    /\ ~deadline_expired(op, elapsed)
    /\ \/ /\ acks' = Append(acks, "ok")
          /\ \E registers \in words : PollGot(registers)
       \/ /\ acks' = Append(acks, "raise")
          /\ Finish("ModbusIOException", NoResult)
          /\ UNCHANGED << rx, sleeps >>
       \/ /\ acks' = Append(acks, "exception_response")
          /\ \/ Finish("AttributeError", NoResult) /\ UNCHANGED << rx, sleeps >>
             \/ PollGot(<< >>)
    /\ UNCHANGED << address, op, args, sent, polls, elapsed, device >>

PollReadCompletes == PollReadEnds(ReadWords(pending))

\* One tick passes while a poll loop is suspended.  A sleep lasts one tick:
\* unless the deadline has come, the loop goes round to its next status read.
Tick ==
    /\ op \in PollOps
    /\ pc \in {"await", "sleep"}
    /\ ~deadline_expired(op, elapsed)
    /\ elapsed < MaxElapsed
    /\ elapsed' = elapsed + 1
    /\ IF pc = "sleep" /\ ~deadline_expired(op, elapsed + 1)
       THEN /\ pc' = "await"
            /\ pending' = Head(_read_gripper_status)
            /\ sent' = Append(sent, Head(_read_gripper_status))
            /\ polls' = polls + 1
       ELSE UNCHANGED << pc, pending, sent, polls >>
    /\ UNCHANGED << address, op, args, todo, acks, rx, result, outcome, sleeps,
                    device >>

\* asyncio.timeout cancels the suspended coroutine at the deadline: the await
\* it is suspended on is cancelled and the block raises TimeoutError.
Timeout ==
    /\ op \in PollOps
    /\ pc \in {"await", "sleep"}
    /\ deadline_expired(op, elapsed)
    /\ acks' = IF pc = "await" THEN Append(acks, "cancelled") ELSE acks
    /\ Finish("TimeoutError", NoResult)
    /\ UNCHANGED << address, op, args, sent, rx, polls, sleeps, elapsed, device >>

Next ==
    \/ address_setter
    \/ Call_read_gripper_status
    \/ Call_read_fault_position
    \/ Call_read_speed_force
    \/ Call_read_voltage_temperature
    \/ Call_read_software_version
    \/ Call_write_control_register
    \/ Call_clear_control_register
    \/ Call_activate
    \/ Call_stop
    \/ Call_execute_move
    \/ Call_set_target_position
    \/ Call_move_to_position
    \/ Call_set_speed_force
    \/ Call_execute_control_movement
    \/ Call_wait_for_move
    \/ Call_wait_for_activation
    \/ TransportWriteCompletes
    \/ TransportReadCompletes
    \/ PollReadCompletes
    \/ Tick
    \/ Timeout

Spec == Init /\ [][Next]_vars

\* The event loop's clock advances while a coroutine is suspended, and the
\* loop runs a timeout callback that has come due.
FairSpec == Spec /\ WF_vars(Tick) /\ WF_vars(Timeout)

\* The status decoder on every 16-bit word 0: a session that only reads the
\* status, with a transport that may return any word.
AllStatusWords == { << w0, w1 >> : w0 \in 0..65535, w1 \in {0, 65535} }

StatusReadCompletes ==
    /\ op = "read_gripper_status"
    /\ ReadCompletes(AllStatusWords)

DecodeNext ==
    \/ Call_read_gripper_status
    \/ StatusReadCompletes

DecodeSpec == Init /\ [][DecodeNext]_vars

\* The position word on every byte and on the integers around the byte
\* range: a session that only loads and commits target positions.  Python's
\* int takes any integer, the signature asks for no more.
MaxPosition == 258
PositionInputs == (0 - 3)..MaxPosition

Position_set_target_position ==
    \E position \in PositionInputs :
        Call("set_target_position", [ position |-> position ],
             set_target_position(position))

Position_move_to_position ==
    \E position \in PositionInputs :
        Call("move_to_position", [ position |-> position ], move_to_position(position))

PositionNext ==
    \/ Position_set_target_position
    \/ Position_move_to_position
    \/ TransportWriteCompletes

PositionSpec == Init /\ [][PositionNext]_vars

\* The fault/position decoder on every 16-bit word: a session that only
\* reads the fault register, with a transport that may return any word.
AllFaultPositionWords == { << w >> : w \in 0..65535 }

FaultPositionReadCompletes ==
    /\ op = "read_fault_position"
    /\ ReadCompletes(AllFaultPositionWords)

FaultNext ==
    \/ Call_read_fault_position
    \/ FaultPositionReadCompletes

FaultSpec == Init /\ [][FaultNext]_vars

\* The speed/force word on every pair of bytes: a session on which
\* set_speed_force is called once.
Bytes == 0..255

SpeedForce_set_speed_force ==
    /\ outcome = "none"
    /\ \E speed \in Bytes, force \in Bytes :
        Call("set_speed_force", [ speed |-> speed, force |-> force ],
             set_speed_force(speed, force))

SpeedForceNext ==
    \/ SpeedForce_set_speed_force
    \/ TransportWriteCompletes

SpeedForceSpec == Init /\ [][SpeedForceNext]_vars

\* The session with the gripper as a process: the caller of
\* tests/test_connection.py, which commands a move, waits for it, and
\* commands the next.  The gripper takes a move command when it acknowledges
\* the CONTROL write and shows it in its status some time later.
AllAcknowledged == \A i \in 1..Len(acks) : acks[i] = "ok"

Test_move_to_position ==
    /\ op \in {"__init__", "wait_for_move"}
    /\ outcome \in {"none", "ok"}
    /\ Call_move_to_position

Test_wait_for_move ==
    /\ op = "move_to_position"
    /\ outcome = "ok"
    /\ AllAcknowledged
    /\ Call_wait_for_move

DeviceWriteCompletes ==
    \E r \in WriteResults :
        /\ WriteEnds(r)
        /\ IF r = "ok" /\ pending.reg = "CONTROL"
              /\ (pending.values[1] \div 8) % 2 = 1
           THEN device' = Device("commanded", device.gOBJ)
           ELSE UNCHANGED device

DeviceStatusReadCompletes ==
    PollReadEnds(DeviceStatusWords(device))

DeviceStartsMove ==
    /\ device.motion = "commanded"
    /\ device' = Device("moving", MOVING_TO_POSITION)
    /\ UNCHANGED << address, pc, op, args, todo, pending, sent, acks, rx, result,
                    outcome, polls, sleeps, elapsed >>

DeviceEndsMove ==
    /\ device.motion = "moving"
    /\ \E gOBJ \in GOBJ_members \ {MOVING_TO_POSITION} :
        device' = Device("rest", gOBJ)
    /\ UNCHANGED << address, pc, op, args, todo, pending, sent, acks, rx, result,
                    outcome, polls, sleeps, elapsed >>

DeviceNext ==
    \/ Test_move_to_position
    \/ Test_wait_for_move
    \/ DeviceWriteCompletes
    \/ DeviceStatusReadCompletes
    \/ Tick
    \/ DeviceStartsMove
    \/ DeviceEndsMove

DeviceSpec == Init /\ [][DeviceNext]_vars

----------------------------------------------------------------------------
(* Properties.  The expected values are computed from the arguments by     *)
(* arithmetic, not by the operators of the model.                          *)

Finished == pc = "idle" /\ outcome \notin {"none", "running"}
AllSucceeded == \A i \in 1..Len(acks) : acks[i] = "ok"
Bit(v, k) == (v \div (2 ^ k)) % 2 = 1
IsWrite(req, reg) == req.kind = "write" /\ req.reg = reg /\ Len(req.values) = 1

\* the registers execute_control_movement is to write, in order
ControlMovementOrder == << "SPEED_FORCE", "POSITION", "CONTROL", "CONTROL" >>

\* C1: while the writes of execute_control_movement succeed, they reach the
\* transport one register at a time in the order SPEED_FORCE, POSITION,
\* CONTROL = 0x09, CONTROL = 0x09, each only after the one before it has
\* completed; so no CONTROL write with bit 3 set precedes the completion of
\* the SPEED_FORCE and POSITION writes, and a call that returns has made
\* exactly these four writes.
C1_ControlMovementOrder ==
    (op = "execute_control_movement" /\ AllSucceeded) =>
        /\ Len(sent) <= 4
        /\ \A i \in 1..Len(sent) :
            /\ IsWrite(sent[i], ControlMovementOrder[i])
            /\ sent[i].reg = "CONTROL" => sent[i].values[1] = 9
            /\ i > 1 => Len(acks) >= i - 1
            /\ (sent[i].reg = "CONTROL" /\ Bit(sent[i].values[1], 3)) =>
                /\ Len(acks) >= 2
                /\ sent[1].reg = "SPEED_FORCE"
                /\ sent[2].reg = "POSITION"
        /\ sent[1].values[1] = args.speed + 256 * args.force
        /\ Len(sent) >= 2 => sent[2].values[1] = 256 * args.position
        /\ Finished => (outcome = "ok" /\ Len(sent) = 4 /\ Len(acks) = 4)

C1_Witness ==
    /\ op = "execute_control_movement"
    /\ Finished
    /\ outcome = "ok"
    /\ AllSucceeded
    /\ Len(sent) = 4
    /\ sent[4].reg = "CONTROL"

\* C2: move_to_position(pos) writes POSITION = pos << 8 and then CONTROL =
\* 0x09, the second only after the first has completed, and a call that
\* returns has made exactly these two writes; between them the target is
\* loaded while this call's CONTROL write has not completed (C2_Witness).
C2_MoveToPositionTwoWrites ==
    op = "move_to_position" =>
        /\ Len(sent) \in {1, 2}
        /\ IsWrite(sent[1], "POSITION")
        /\ sent[1].values[1] = 256 * args.position
        /\ Len(sent) = 2 =>
            /\ IsWrite(sent[2], "CONTROL")
            /\ sent[2].values[1] = 9
            /\ Len(acks) >= 1
            /\ acks[1] # "raise"
        /\ (Finished /\ outcome = "ok") => (Len(sent) = 2 /\ Len(acks) = 2)

\* the POSITION write has completed and the CONTROL write is in flight
C2_Witness ==
    /\ op = "move_to_position"
    /\ args.position = 255
    /\ acks = << "ok" >>
    /\ Len(sent) = 2
    /\ sent[1].values = << 65280 >>
    /\ pc = "await"
    /\ pending.reg = "CONTROL"

\* activationState and motionState of the status word last read
RxActivation == IF Len(rx) >= 1 THEN (rx[1] \div 16) % 4 ELSE -1
RxMotion == IF Len(rx) >= 1 THEN (rx[1] \div 64) % 4 ELSE -1
ReadFailures == {"ModbusIOException", "AttributeError", "IndexError"}
LastAck == IF Len(acks) >= 1 THEN acks[Len(acks)] ELSE "none"

\* C3 as stated: a wait_for_activation in which no status read reported
\* ACTIVATED ends with TimeoutError at the deadline, and one that returns
\* has read ACTIVATED.
C3_TimeoutUnlessActivated ==
    (op = "wait_for_activation" /\ Finished) =>
        /\ RxActivation # 3 => (outcome = "TimeoutError" /\ elapsed = TimeoutTicks)
        /\ outcome = "ok" => RxActivation = 3

C3_Safety ==
    op = "wait_for_activation" =>
        /\ elapsed <= TimeoutTicks
        /\ pc = "sleep" => RxActivation # 3
        /\ Finished =>
            \/ outcome = "ok" /\ RxActivation = 3 /\ LastAck = "ok"
                 /\ elapsed < TimeoutTicks
            \/ outcome = "TimeoutError" /\ RxActivation # 3
                 /\ elapsed = TimeoutTicks
            \/ outcome \in ReadFailures /\ RxActivation # 3
                 /\ LastAck \in {"raise", "exception_response"}
                 /\ elapsed < TimeoutTicks

\* C3 (amended): wait_for_activation always ends, at the latest at the
\* deadline: it returns only if its last status read reported ACTIVATED
\* before the deadline; if no status read does, it ends with TimeoutError
\* at the deadline, or before the deadline with the error of a status read
\* that failed.
C3_WaitForActivationEnds ==
    /\ []C3_Safety
    /\ (op = "wait_for_activation" /\ pc # "idle")
          ~> (op = "wait_for_activation" /\ Finished)

\* the deadline came during the sleep after the 51st poll (reads that took no time)
C3_Witness ==
    /\ op = "wait_for_activation"
    /\ Finished
    /\ outcome = "TimeoutError"
    /\ elapsed = TimeoutTicks
    /\ polls >= 2
    /\ RxActivation = 1

\* C4: wait_for_activation issues one status read per round and sleeps once
\* (one tick of 100 ms) between two reads: when its k-th read is the first to
\* report ACTIVATED it returns after k reads and k - 1 sleeps, with nothing
\* in flight.
C4_ActivationPollCount ==
    op = "wait_for_activation" =>
        /\ Len(sent) = polls
        /\ \A i \in 1..Len(sent) : sent[i].kind = "read" /\ sent[i].reg = "STATUS"
        /\ pc # "sleep" => sleeps <= elapsed
        /\ pc = "await" => (sleeps = polls - 1 /\ Len(acks) = polls - 1)
        /\ pc = "sleep" => (sleeps = polls /\ Len(acks) = polls /\ RxActivation # 3)
        /\ (Finished /\ outcome = "ok") =>
            /\ polls >= 1
            /\ sleeps = polls - 1
            /\ Len(acks) = polls
            /\ AllSucceeded
            /\ RxActivation = 3
            /\ pending = NoRequest

\* two reads reported ACTIVATING, the third ACTIVATED, after 0.2 s of sleep
C4_Witness ==
    /\ op = "wait_for_activation"
    /\ Finished
    /\ outcome = "ok"
    /\ polls = 3
    /\ sleeps = 2
    /\ elapsed = 2
    /\ RxActivation = 3

\* C5: wait_for_move never ends with a timeout of its own; it goes round
\* (sleeping) exactly when the status read reports MOVING_TO_POSITION, it
\* returns right after the first read that reports another motionState, and
\* otherwise it ends only with the error of a failed status read.
C5_WaitForMoveNoDeadline ==
    op = "wait_for_move" =>
        /\ outcome # "TimeoutError"
        /\ Len(sent) = polls
        /\ pc = "await" => sleeps = polls - 1
        /\ pc = "sleep" => (sleeps = polls /\ RxMotion = 0)
        /\ Finished =>
            \/ /\ outcome = "ok"
               /\ RxMotion \in {1, 2, 3}
               /\ LastAck = "ok"
               /\ sleeps = polls - 1
               /\ pending = NoRequest
            \/ /\ outcome \in ReadFailures
               /\ LastAck \in {"raise", "exception_response"}

\* still polling after more than 5 s of MOVING_TO_POSITION reads
C5_Witness ==
    /\ op = "wait_for_move"
    /\ pc = "await"
    /\ elapsed > TimeoutTicks
    /\ polls > TimeoutTicks
    /\ RxMotion = 0

\* C6 as stated, for the composite commands: a transport failure ends the
\* operation, so a CONTROL write with the move-to-target bit is issued only
\* when every write before it has succeeded.
C6_FailedWriteStopsComposite ==
    op \in {"move_to_position", "execute_control_movement"} =>
        \A i \in 1..Len(sent) :
            (sent[i].reg = "CONTROL" /\ Bit(sent[i].values[1], 3)) =>
                \A j \in 1..(i - 1) : acks[j] = "ok"

\* C7 as stated: the stored address, and the unit id of every request, is in
\* 0..247.
C7_AddressInRange ==
    /\ address \in 0..247
    /\ \A i \in 1..Len(sent) : sent[i].slave \in 0..247

\* C8: an assignment of a value above 247 raises and leaves the stored
\* address as it was; an assignment of 247 succeeds and stores 247.
C8_SetterRejectsAbove247 ==
    [][ op' = "address.setter" =>
            /\ args'.value > 247 => (outcome' = "ValueError" /\ address' = address)
            /\ args'.value = 247 => (outcome' = "ok" /\ address' = 247)
      ]_vars

\* 248 was refused after 247 had been stored
C8_Witness ==
    /\ op = "address.setter"
    /\ args.value = 248
    /\ outcome = "ValueError"
    /\ address = 247

\* C9: for each of the 32 commands the byte written to CONTROL has enable at
\* bit 0, mode at bit 1, move-to-target at bit 3, emergency release
\* (automatic_inspection) at bit 4 and release direction
\* (automatic_patrol_inspection) at bit 5, has bits 2, 6 and 7 clear, and no
\* other command encodes to the same byte; enable with move-to-target is 0x09.
C9_ControlByteLayout ==
    op = "write_control_register" =>
        LET b == sent[1].values[1]
            c == args.control
        IN  /\ IsWrite(sent[1], "CONTROL")
            /\ b \in 0..255
            /\ Bit(b, 0) = c.enable
            /\ Bit(b, 1) = c.mode
            /\ Bit(b, 3) = c.move_to_targret
            /\ Bit(b, 4) = c.automatic_inspection
            /\ Bit(b, 5) = c.automatic_patrol_inspection
            /\ ~Bit(b, 2) /\ ~Bit(b, 6) /\ ~Bit(b, 7)
            /\ \A c2 \in ControlRegisters : to_u8(c2) = b => c2 = c
            /\ c = ControlRegister(TRUE, FALSE, TRUE, FALSE, FALSE) => b = 9

\* all five flags set: 0x3B
C9_Witness ==
    /\ op = "write_control_register"
    /\ args.control = ControlRegister(TRUE, TRUE, TRUE, TRUE, TRUE)
    /\ sent[1].values = << 59 >>
    /\ outcome = "ok"

\* C10: whatever two words the STATUS read returns, read_gripper_status
\* returns, and its result is made of bits 0..7 of word 0 alone: bit 0
\* activated, bit 1 dropDetected, bit 2 parameterlessMode, bit 3
\* goingToTarget, bits 4-5 activationState, bits 6-7 motionState.
C10_StatusDecoding ==
    (op = "read_gripper_status" /\ acks = << "ok" >> /\ Len(rx) = 2) =>
        /\ Finished
        /\ outcome = "ok"
        /\ result.type = "GripperStatus"
        /\ result.gACT = Bit(rx[1], 0)
        /\ result.gDropSta = Bit(rx[1], 1)
        /\ result.gMODE = Bit(rx[1], 2)
        /\ result.gGTO = Bit(rx[1], 3)
        /\ result.gSTA = (rx[1] \div 16) % 4
        /\ result.gOBJ = (rx[1] \div 64) % 4
        /\ result = read_gripper_status(<< rx[1] % 256, 0 >>)

\* word 0 = 0xFF71 (high byte set), word 1 = 0xFFFF
C10_Witness ==
    /\ op = "read_gripper_status"
    /\ rx = << 65393, 65535 >>
    /\ outcome = "ok"
    /\ result.gACT
    /\ result.gSTA = ACTIVATED
    /\ result.gOBJ = INNER_SUPPORT

\* C11: for every position in 0..255 given to set_target_position or
\* move_to_position, the word written to POSITION carries the position in its
\* high byte and zero in its low byte, and lies within 0..65535.
C11_PositionWord ==
    (op \in {"set_target_position", "move_to_position"} /\ args.position \in 0..255) =>
        /\ Len(sent) >= 1
        /\ IsWrite(sent[1], "POSITION")
        /\ Len(sent[1].values) = 1
        /\ sent[1].values[1] \div 256 = args.position
        /\ sent[1].values[1] % 256 = 0
        /\ sent[1].values[1] \in 0..65535

\* position 255 was written as 0xFF00 and accepted
C11_Witness ==
    /\ op = "set_target_position"
    /\ args.position = 255
    /\ outcome = "ok"
    /\ sent[1].values = << 65280 >>
    /\ acks = << "ok" >>

FaultFlags ==
    << "control_command_error", "communication_fault", "overcurrent_fault",
       "voltage_fault", "enabling_fault", "overtemperature_fault", "self_fault" >>

\* C12: read_fault_position returns position = (word >> 8) & 0xFF and the
\* seven fault flags equal to bits 0..6 of the word in the order control
\* command error, communication, overcurrent, voltage, enabling,
\* overtemperature, self fault; bit 7 reaches no field.
C12_FaultPositionDecoding ==
    (op = "read_fault_position" /\ outcome = "ok" /\ Len(rx) = 1) =>
        /\ result.type = "FaultPosition"
        /\ result.position = (rx[1] \div 256) % 256
        /\ DOMAIN result.fault = { FaultFlags[k] : k \in 1..7 }
        /\ \A k \in 1..7 : result.fault[FaultFlags[k]] = Bit(rx[1], k - 1)
        /\ result = read_fault_position(<< rx[1] - (IF Bit(rx[1], 7) THEN 128 ELSE 0) >>)

\* the word 0x0105: control command error and overcurrent, position 1
C12_Witness ==
    /\ op = "read_fault_position"
    /\ outcome = "ok"
    /\ rx = << 261 >>
    /\ result.position = 1
    /\ result.fault.control_command_error
    /\ result.fault.overcurrent_fault
    /\ ~result.fault.communication_fault
    /\ ~result.fault.voltage_fault
    /\ ~result.fault.enabling_fault
    /\ ~result.fault.overtemperature_fault
    /\ ~result.fault.self_fault

\* C13: for speed and force in 0..255 the word written to SPEED_FORCE is
\* speed | (force << 8), speed in the low byte and force in the high byte,
\* and decoding that word as read_speed_force does gives back both.
C13_SpeedForceRoundTrip ==
    (op = "set_speed_force" /\ args.speed \in 0..255 /\ args.force \in 0..255) =>
        /\ Len(sent) >= 1
        /\ IsWrite(sent[1], "SPEED_FORCE")
        /\ Len(sent[1].values) = 1
        /\ sent[1].values[1] = BitOr(args.speed, args.force * 256)
        /\ sent[1].values[1] % 256 = args.speed
        /\ sent[1].values[1] \div 256 = args.force
        /\ read_speed_force(sent[1].values).speed = args.speed
        /\ read_speed_force(sent[1].values).force = args.force

\* speed 200, force 20 was written as 0x14C8 and accepted
C13_Witness ==
    /\ op = "set_speed_force"
    /\ args.speed = 200
    /\ args.force = 20
    /\ sent[1].values = << 5320 >>
    /\ read_speed_force(<< 5320 >>).speed = 200
    /\ read_speed_force(<< 5320 >>).force = 20
    /\ outcome = "ok"
    /\ acks = << "ok" >>

ControlHelpers == {"activate", "stop", "clear_control_register", "execute_move"}
CompositeMoves == {"move_to_position", "execute_control_movement"}

\* C14: activate and stop each make exactly one CONTROL write of 0x01,
\* clear_control_register one of 0x00 and execute_move one of 0x09; so every
\* value these helpers and the composite move commands write to CONTROL is
\* 0x00, 0x01 or 0x09, and the move bit is never written without the enable
\* bit.
C14_ControlHelperBytes ==
    /\ op \in ControlHelpers =>
        /\ Len(sent) = 1
        /\ IsWrite(sent[1], "CONTROL")
        /\ sent[1].values[1] =
             (CASE op = "activate" -> 1
                [] op = "stop" -> 1
                [] op = "clear_control_register" -> 0
                [] op = "execute_move" -> 9)
    /\ op \in ControlHelpers \cup CompositeMoves =>
        \A i \in 1..Len(sent) :
            sent[i].reg = "CONTROL" =>
                /\ IsWrite(sent[i], "CONTROL")
                /\ sent[i].values[1] \in {0, 1, 9}
                /\ Bit(sent[i].values[1], 3) => Bit(sent[i].values[1], 0)

\* stop returned after its one write of 0x01
C14_Witness ==
    /\ op = "stop"
    /\ outcome = "ok"
    /\ Len(sent) = 1
    /\ IsWrite(sent[1], "CONTROL")
    /\ sent[1].values = << 1 >>
    /\ acks = << "ok" >>

\* every request of sent but the one in flight has ended its round trip
RoundTripsCompleted(requests, ends, inflight) ==
    /\ Len(ends) = Len(requests) - inflight
    /\ \A i \in 1..Len(ends) : ends[i] # "cancelled"

\* C15 as stated: with the caller awaiting each operation before it calls
\* the next, a request goes to the transport only when the round trip of
\* every request before it has completed, within an operation and from one
\* operation to the next; so at most one request is outstanding.
C15_OneRequestAtATime ==
    [][ /\ (outcome # "running" /\ outcome' = "running") =>
            RoundTripsCompleted(sent, acks, 0)
        /\ (outcome = "running" /\ Len(sent') > Len(sent)) =>
            /\ Len(sent') = Len(sent) + 1
            /\ RoundTripsCompleted(sent', acks', 1) ]_vars

\* C17 as stated: at the deadline of wait_for_activation the loop starts no
\* further read or sleep, and a status read in flight is left to complete:
\* no request of the operation is cancelled.
C17_InFlightReadCompletes ==
    (op = "wait_for_activation" /\ outcome = "TimeoutError") =>
        /\ elapsed = TimeoutTicks
        /\ Len(sent) = polls
        /\ sleeps <= polls
        /\ RoundTripsCompleted(sent, acks, 0)

ReadOps ==
    {"read_gripper_status", "read_fault_position", "read_speed_force",
     "read_voltage_temperature", "read_software_version"}

\* the input register each read operation is to read, and how many words
ReadRegister(o) ==
    CASE o = "read_gripper_status" -> << "STATUS", 2 >>
      [] o = "read_fault_position" -> << "FAULT_POSITION_STATUS", 1 >>
      [] o = "read_speed_force" -> << "SPEED_FORCE_STATUS", 1 >>
      [] o = "read_voltage_temperature" -> << "VOLTAGE_TEMPERATURE_STATUS", 1 >>
      [] o = "read_software_version" -> << "SOFTWARE_INFO", 1 >>

IsRead(req, reg, count) ==
    req.kind = "read" /\ req.reg = reg /\ req.count = count /\ req.values = << >>

\* the value a read operation returned is the one its words give
ResultFromWords ==
    CASE op = "read_gripper_status" ->
            /\ result.gACT = Bit(rx[1], 0)
            /\ result.gDropSta = Bit(rx[1], 1)
            /\ result.gMODE = Bit(rx[1], 2)
            /\ result.gGTO = Bit(rx[1], 3)
            /\ result.gSTA = RxActivation
            /\ result.gOBJ = RxMotion
      [] op = "read_fault_position" ->
            /\ result.position = (rx[1] \div 256) % 256
            /\ \A k \in 1..7 : result.fault[FaultFlags[k]] = Bit(rx[1], k - 1)
      [] op = "read_speed_force" ->
            /\ result.speed = rx[1] % 256
            /\ result.force = (rx[1] \div 256) % 256
      [] op = "read_voltage_temperature" ->
            /\ result.voltage = rx[1] % 256
            /\ result.temperature = (rx[1] \div 256) % 256
      [] op = "read_software_version" -> result.registers = rx

ReadsOnly ==
    /\ op \in ReadOps \cup PollOps =>
        \A i \in 1..Len(sent) : sent[i].kind = "read"
    /\ op \in ReadOps =>
        /\ Len(sent) = 1
        /\ IsRead(sent[1], ReadRegister(op)[1], ReadRegister(op)[2])
        /\ outcome = "ok" => ResultFromWords
    /\ op \in PollOps =>
        /\ Len(sent) = polls
        /\ \A i \in 1..Len(sent) : IsRead(sent[i], "STATUS", 2)

\* C18: only the address setter changes the session's state; the read and
\* wait operations hand the transport no write; each read_* operation makes
\* exactly one read, of its own register, and returns what the words of that
\* read give; the wait loops make STATUS reads only.
C18_ReadsOnlyNoState ==
    [][ /\ op' # "address.setter" => address' = address
        /\ ReadsOnly' ]_vars

\* read_voltage_temperature returned 3 and 2 from the one word 0x0203
C18_Witness ==
    /\ op = "read_voltage_temperature"
    /\ outcome = "ok"
    /\ Len(sent) = 1
    /\ IsRead(sent[1], "VOLTAGE_TEMPERATURE_STATUS", 1)
    /\ rx = << 515 >>
    /\ result.voltage = 3
    /\ result.temperature = 2

\* C19 as stated: with the gripper showing a move in its status some time
\* after it took the CONTROL write, a wait_for_move() that follows an
\* accepted move_to_position(p) returns only when that move is over, never
\* on the status the gripper still shows from before the move.
C19_WaitForMoveCoversMove ==
    (op = "wait_for_move" /\ outcome = "ok") => device.motion = "rest"

====
